---- MODULE Spec2Model ----
(***************************************************************************)
(* TheGiftOasis backend: the product catalogue with time-boxed discounts   *)
(* (routes/productRoutes.js = src/unnamed/part_005, models/Product.js),    *)
(* order intake with the count-derived order number (routes/orderRoutes.js *)
(* = src/unnamed/part_002, models/Order.js = src/models/Product.js from    *)
(* line 65) and the review routes with the rating aggregate                *)
(* (models/Review.js = src/unnamed/part_008), the media uploader           *)
(* (utils/uploadCloudinary.js = src/unnamed/part_000), server.js and the   *)
(* token middleware (middleware/auth.js).                                  *)
(*                                                                         *)
(* The specifications share the variables:                                 *)
(*   Spec            the catalogue: add/update/delete product, the clock,  *)
(*                   and the single-product query that decorates a product;*)
(*   MediaSpec       products added and updated with files, the media      *)
(*                   uploader and the temp files of uploads/;              *)
(*   OrderSpec       concurrent POST /create requests against the orders   *)
(*                   collection and its unique orderNumber index;          *)
(*   OrderAdminSpec  order intake next to the admin's status updates;      *)
(*   OrderEmailSpec  order intake with every outcome of the two emails;    *)
(*   RejectSpec      order intake next to requests validation refuses;     *)
(*   ReviewSpec      concurrent review posts/deletes against the reviews   *)
(*                   collection and the product's rating aggregate;        *)
(*   ReviewFaultSpec the same with a store whose calls can fail;           *)
(*   OrderStatusSpec orders created one by one, every status submitted;    *)
(*   SnapshotSpec    orders with line items next to product update and     *)
(*                   delete and a review;                                  *)
(*   GateSpec        the admin routes under every kind of authorization;   *)
(*   StockSpec       products saved with every stock and threshold;        *)
(*   RatingSpec      review posts whose ratings include halves;            *)
(*   QuerySpec       the dashboard, list, highlights and single queries;   *)
(*   AccountSpec     forgot-password and reset-password (routes/           *)
(*                   userRoutes.js = src/unnamed/part_006, models/User.js).*)
(*                                                                         *)
(* Instants are integers (one unit = 30 minutes in the scenarios). Money   *)
(* is an integer; the inputs are chosen so that price * percentage / 100   *)
(* is exact, so the floating-point rounding of JavaScript is not modelled. *)
(* The discount bounds an action receives are the instants that            *)
(* moment.tz(str, "Asia/Karachi") yields for the submitted strings.        *)
(***************************************************************************)
EXTENDS Integers, Sequences, FiniteSets

VARIABLES
    products,       \* the products collection: id -> document, or NoProduct
    nextProductId,  \* the id the next inserted product gets
    tempFiles,      \* uploads/: the temp files multer wrote for the latest request
                    \* to a route that takes files, each unlinked or not
    now,            \* the server clock (an instant)
    response,       \* the last HTTP response sent
    orders,         \* the orders collection: a set of documents
    orderReq,       \* POST /create: request -> where its handler stands and its locals
    emails,         \* the order emails handed to the email service, with their outcome
    reviews,        \* the reviews collection: a set of documents
    nextReviewId,   \* the id the next inserted review gets
    reviewReq,      \* review post/delete: request -> where its handler stands and its locals
    overlapped,     \* history: some review request began while another was in flight
    user,           \* the users collection: the one account's password and reset fields
    nextToken,      \* the reset token crypto.randomBytes yields next
    accountReq      \* forgot/reset-password: request -> where its handler stands and its locals

catalogVars == <<products, nextProductId, tempFiles>>

orderVars == <<orders, orderReq, emails>>

reviewVars == <<reviews, nextReviewId, reviewReq, overlapped>>

accountVars == <<user, nextToken, accountReq>>

vars == <<products, nextProductId, tempFiles, now, response, orders, orderReq, emails,
          reviews, nextReviewId, reviewReq, overlapped, user, nextToken, accountReq>>

----------------------------------------------------------------------------
(* Bounds and input domains *)

MaxTime == 5

MaxProducts == 1

MaxRequests == 2

MaxReviewRequests == 2

MaxAccountRequests == 3

NULL == -1

ProductIds == 1..MaxProducts

OrderRequests == 1..MaxRequests

ReviewRequests == 1..MaxReviewRequests

AccountRequests == 1..MaxAccountRequests

NoProduct == [exists |-> FALSE]

NoResponse == [kind |-> "none"]

\* req.body.price as a number: negative, zero, positive; NULL when the body
\* has none
PriceInputs == {NULL, -100, 0, 1000}

\* <<Number(discountPercentage || 0), discountStart, discountEnd>> submitted:
\* no discount, a zero percentage over a window, a percentage with no window,
\* with half a window, over a window, over a one-instant window, over an
\* inverted window, and a percentage above 100
DiscountInputs ==
    { <<0, NULL, NULL>>, <<0, 1, 3>>, <<20, NULL, NULL>>, <<20, 1, NULL>>,
      <<20, NULL, 3>>, <<20, 1, 3>>, <<20, 2, 2>>, <<20, 3, 1>>, <<150, 1, 3>> }

----------------------------------------------------------------------------
(* models/Product.js *)

\* a document as new Product({...}) / the schema defaults make it
ProductDoc(price, pct, start, end) ==
    [ exists             |-> TRUE,
      price              |-> price,
      discountPercentage |-> pct,
      discountStart      |-> start,
      discountEnd        |-> end,
      averageRating      |-> [num |-> 0, den |-> 1],
      ratingCount        |-> 0,
      stock              |-> 0,
      stockStatus        |-> "in_stock",
      lowStockThreshold  |-> 5 ]

preSaveIgnoringThreshold(p) ==
    [p EXCEPT !.stockStatus = IF p.stock <= 0 THEN "out_of_stock" ELSE "in_stock"]

\* productSchema.pre("save"): the stock status is set from stock and
\* lowStockThreshold
preSave(p) ==
    [p EXCEPT !.stockStatus = IF p.stock <= 0 THEN "out_of_stock"
                              ELSE IF p.stock <= p.lowStockThreshold THEN "low_stock"
                              ELSE "in_stock"]

getFinalPriceFlatDiscount(p, t) ==
    IF /\ p.discountPercentage > 0
       /\ p.discountStart # NULL
       /\ p.discountEnd # NULL
       /\ t >= p.discountStart
       /\ t <= p.discountEnd
    THEN p.price - p.discountPercentage
    ELSE p.price

\* productSchema.methods.getFinalPrice, with the instant `new Date()` returned
getFinalPrice(p, t) ==
    IF /\ p.discountPercentage > 0
       /\ p.discountStart # NULL
       /\ p.discountEnd # NULL
       /\ t >= p.discountStart
       /\ t <= p.discountEnd
    THEN p.price - ((p.price * p.discountPercentage) \div 100)
    ELSE p.price

----------------------------------------------------------------------------
(* routes/productRoutes.js: the pricing helpers *)

isBetweenExclusive(t, from, to) == t > from /\ t < to

\* moment's now.isBetween(from, to, null, "[]")
isBetween(t, from, to) == ~(t < from) /\ ~(t > to)

\* getDiscountInfo(product): tInfo is the instant moment() returned, tPrice the
\* instant new Date() returns inside product.getFinalPrice()
getDiscountInfo(p, tInfo, tPrice) ==
    LET configured == /\ p.discountPercentage > 0
                      /\ p.discountStart # NULL
                      /\ p.discountEnd # NULL
        discountActive == IF configured
                          THEN isBetween(tInfo, p.discountStart, p.discountEnd)
                          ELSE FALSE
        discountExpiry == IF configured THEN p.discountEnd ELSE NULL
    IN  [ discountActive     |-> discountActive,
          discountExpiry     |-> discountExpiry,
          finalPrice         |-> IF discountActive THEN getFinalPrice(p, tPrice)
                                                   ELSE p.price,
          discountPercentage |-> p.discountPercentage ]

decorateProductStoredPercentage(p, tInfo, tPrice) ==
    LET info == getDiscountInfo(p, tInfo, tPrice)
    IN  [ price              |-> p.price,
          discountPercentage |-> info.discountPercentage,
          discountStart      |-> IF info.discountActive THEN p.discountStart ELSE NULL,
          discountEnd        |-> IF info.discountActive THEN p.discountEnd ELSE NULL,
          finalPrice         |-> info.finalPrice,
          discountExpiry     |-> info.discountExpiry,
          isDiscountActive   |-> info.discountActive,
          averageRating      |-> p.averageRating,
          ratingCount        |-> p.ratingCount ]

\* decorateProduct(product)
decorateProduct(p, tInfo, tPrice) ==
    LET info == getDiscountInfo(p, tInfo, tPrice)
    IN  [ price              |-> p.price,
          discountPercentage |-> IF info.discountActive THEN info.discountPercentage ELSE 0,
          discountStart      |-> IF info.discountActive THEN p.discountStart ELSE NULL,
          discountEnd        |-> IF info.discountActive THEN p.discountEnd ELSE NULL,
          finalPrice         |-> info.finalPrice,
          discountExpiry     |-> info.discountExpiry,
          isDiscountActive   |-> info.discountActive,
          averageRating      |-> p.averageRating,
          ratingCount        |-> p.ratingCount ]

----------------------------------------------------------------------------
(* routes/productRoutes.js: the catalogue handlers *)

\* the server clock advances
Tick ==
    /\ now < MaxTime
    /\ now' = now + 1
    /\ UNCHANGED <<catalogVars, orderVars, reviewVars, response, accountVars>>

\* the files a request to /add-product or /update-product carries: multer's
\* upload.fields([{ name: "image" }, { name: "video" }])
FileInputs == SUBSET {"image", "video"}

\* the media uploader as a request finds it: the three CLOUDINARY_* variables
\* set or not, and the fields whose upload Cloudinary rejects
Uploaders ==
    { [configured |-> TRUE, failing |-> {}],
      [configured |-> FALSE, failing |-> {}],
      [configured |-> TRUE, failing |-> {"image"}],
      [configured |-> TRUE, failing |-> {"video"}],
      [configured |-> TRUE, failing |-> {"file"}] }

\* the uploader configured and accepting every upload
WorkingUploader == [configured |-> TRUE, failing |-> {}]

\* multer has written one temp file per field before the handler runs
storedFiles(files) == { [field |-> f, unlinked |-> FALSE] : f \in files }

\* uploadToCloudinary(filePath, folder): throws before its try block when the
\* configuration is missing; otherwise uploads, and unlinks the temp file in
\* its finally block whether the upload returned or threw
uploadToCloudinary(uploader, field) ==
    IF ~uploader.configured THEN [threw |-> TRUE, unlinked |-> FALSE]
    ELSE [threw |-> field \in uploader.failing, unlinked |-> TRUE]

\* `if (imageFile) ... await uploadToCloudinary(...)`, then the same for the
\* video unless the first call threw: whether one threw, and the temp files after
uploadMedia(files, uploader) ==
    LET notCalled == [threw |-> FALSE, unlinked |-> FALSE]
        image == IF "image" \in files THEN uploadToCloudinary(uploader, "image")
                                      ELSE notCalled
        video == IF "video" \in files /\ ~image.threw
                 THEN uploadToCloudinary(uploader, "video")
                 ELSE notCalled
    IN  [ threw     |-> image.threw \/ video.threw,
          tempFiles |-> { [field |-> f,
                           unlinked |-> IF f = "image" THEN image.unlinked
                                                       ELSE video.unlinked] :
                          f \in files } ]

\* POST /add-product. A body lacking name, description, price or category is
\* the one with price = NULL; otherwise price is Number(price). An exception of
\* the uploader lands in the handler's catch, which answers 500.
AddProduct(price, pct, start, end, files, uploader) ==
    /\ nextProductId <= MaxProducts
    /\ IF price = NULL
       THEN /\ response' = [kind |-> "add-product", status |-> 400, uploadThrew |-> FALSE]
            /\ tempFiles' = storedFiles(files)
            /\ UNCHANGED <<products, nextProductId, now, orderVars, reviewVars,
                           accountVars>>
       ELSE IF price < 0
       THEN /\ response' = [kind |-> "add-product", status |-> 400, uploadThrew |-> FALSE]
            /\ tempFiles' = storedFiles(files)
            /\ UNCHANGED <<products, nextProductId, now, orderVars, reviewVars,
                           accountVars>>
       ELSE IF uploadMedia(files, uploader).threw
       THEN /\ response' = [kind |-> "add-product", status |-> 500, uploadThrew |-> TRUE]
            /\ tempFiles' = uploadMedia(files, uploader).tempFiles
            /\ UNCHANGED <<products, nextProductId, now, orderVars, reviewVars,
                           accountVars>>
       ELSE /\ products' = [products EXCEPT
                               ![nextProductId] = preSave(ProductDoc(price, pct, start, end))]
            /\ nextProductId' = nextProductId + 1
            /\ tempFiles' = uploadMedia(files, uploader).tempFiles
            /\ response' = [kind |-> "add-product", status |-> 200, uploadThrew |-> FALSE]
            /\ UNCHANGED <<now, orderVars, reviewVars, accountVars>>

\* stock and lowStockThreshold of a document that is saved: non-positive,
\* below, at and above the threshold
StockInputs == {-1, 0, 3, 5, 6, 10}

ThresholdInputs == {0, 5}

\* a document with that stock and threshold is saved through the model:
\* document id if it is stored, a new one if id is the next free id; the
\* pre-save hook runs on it
SaveProduct(id, stock, threshold) ==
    /\ id <= MaxProducts
    /\ products[id].exists \/ id = nextProductId
    /\ products' = [products EXCEPT ![id] =
          preSave([(IF products[id].exists THEN products[id]
                    ELSE ProductDoc(1000, 0, NULL, NULL))
                      EXCEPT !.stock = stock, !.lowStockThreshold = threshold])]
    /\ nextProductId' = IF products[id].exists THEN nextProductId ELSE nextProductId + 1
    /\ UNCHANGED <<tempFiles, now, response, orderVars, reviewVars, accountVars>>

\* the update document of PUT /update-product/:id applied by findByIdAndUpdate;
\* an undefined price is left out of the update
updateData(p, price, pct, start, end) ==
    [p EXCEPT !.price = IF price # NULL THEN price ELSE @,
              !.discountPercentage = pct,
              !.discountStart = start,
              !.discountEnd = end]

\* PUT /update-product/:id. An exception of the uploader lands in the handler's
\* catch, which answers 500 before findByIdAndUpdate is reached.
UpdateProduct(id, price, pct, start, end, files, uploader) ==
    /\ tempFiles' = uploadMedia(files, uploader).tempFiles
    /\ IF uploadMedia(files, uploader).threw
       THEN /\ response' = [kind |-> "update-product", status |-> 500,
                            found |-> products[id].exists, uploadThrew |-> TRUE]
            /\ UNCHANGED products
       ELSE /\ products' = [products EXCEPT ![id] =
                               IF @.exists
                               THEN updateData(@, price, pct, start, end)
                               ELSE @]
            /\ response' = [kind |-> "update-product", status |-> 200,
                            found |-> products[id].exists, uploadThrew |-> FALSE]
    /\ UNCHANGED <<nextProductId, now, orderVars, reviewVars, accountVars>>

DeleteProductCascading(id) ==
    /\ products' = [products EXCEPT ![id] = NoProduct]
    /\ response' = [kind |-> "delete-product", status |-> 200,
                    found |-> products[id].exists]
    /\ reviews' = {v \in reviews : v.product # id}
    /\ orders' = {o \in orders : o.items.productId # id}
    /\ UNCHANGED <<nextProductId, tempFiles, now, orderReq, emails,
                   nextReviewId, reviewReq, overlapped, accountVars>>

\* DELETE /delete-product/:id: findByIdAndDelete, whose result is not looked at
DeleteProduct(id) ==
    /\ products' = [products EXCEPT ![id] = NoProduct]
    /\ response' = [kind |-> "delete-product", status |-> 200,
                    found |-> products[id].exists]
    /\ UNCHANGED <<nextProductId, tempFiles, now, orderVars, reviewVars, accountVars>>

\* POST /api/upload (server.js): the checkout screenshot goes to Cloudinary
\* directly; the temp file is unlinked after the upload returned, and the catch
\* block answers 500 without unlinking
UploadScreenshot(hasFile, uploader) ==
    /\ IF ~hasFile
       THEN /\ response' = [kind |-> "upload", status |-> 400]
            /\ tempFiles' = {}
       ELSE IF ~uploader.configured \/ "file" \in uploader.failing
       THEN /\ response' = [kind |-> "upload", status |-> 500]
            /\ tempFiles' = { [field |-> "file", unlinked |-> FALSE] }
       ELSE /\ response' = [kind |-> "upload", status |-> 200]
            /\ tempFiles' = { [field |-> "file", unlinked |-> TRUE] }
    /\ UNCHANGED <<products, nextProductId, now, orderVars, reviewVars, accountVars>>

\* GET /:id. The clock is read once in getDiscountInfo and once more in
\* getFinalPrice; it may advance between the two reads.
GetProduct(id) ==
    IF ~products[id].exists
    THEN /\ response' = [kind |-> "product", status |-> 404]
         /\ UNCHANGED <<catalogVars, now, orderVars, reviewVars, accountVars>>
    ELSE \E tPrice \in {now, now + 1} :
            /\ tPrice <= MaxTime
            /\ response' = [kind   |-> "product",
                            status |-> 200,
                            doc    |-> products[id],
                            tInfo  |-> now,
                            tPrice |-> tPrice,
                            body   |-> decorateProduct(products[id], now, tPrice)]
            /\ now' = tPrice
            /\ UNCHANGED <<catalogVars, orderVars, reviewVars, accountVars>>

----------------------------------------------------------------------------
(* JavaScript strings, as sequences of one-character strings *)

DigitChars == <<"0", "1", "2", "3", "4", "5", "6", "7", "8", "9">>

IsDigit(c) == \E i \in 1..Len(DigitChars) : DigitChars[i] = c

RECURSIVE NumberToString(_)
\* String(n) of a non-negative integer
NumberToString(n) ==
    IF n < 10 THEN <<DigitChars[n + 1]>>
              ELSE NumberToString(n \div 10) \o <<DigitChars[(n % 10) + 1]>>

\* s.padStart(len, ch): never truncates
padStart(s, len, ch) ==
    IF Len(s) >= len THEN s ELSE [i \in 1..(len - Len(s)) |-> ch] \o s

\* new Date() at instant t, in the server's zone: getFullYear(), getMonth()
\* (0-based), getDate(). Midnight of 31 December 2025 falls at instant 3.
serverDate(t) ==
    IF t < 3 THEN [year |-> 2025, month |-> 11, date |-> 31]
             ELSE [year |-> 2026, month |-> 0, date |-> 1]

\* String(Date.now()) at instant t: epoch milliseconds, thirteen digits
DateNowString(t) ==
    <<"1", "7", "6", "7", "2", "0", "7", "5", "9", "9", "9", "9">> \o NumberToString(t % 10)

----------------------------------------------------------------------------
(* models/Order.js *)

\* the try branch of orderSchema.pre("save"): `ORD-${year}${month}${day}-${sequence}`
countOrderNumber(count, t) ==
    LET date == serverDate(t)
        year == NumberToString(date.year)
        month == padStart(NumberToString(date.month + 1), 2, "0")
        day == padStart(NumberToString(date.date), 2, "0")
        sequence == padStart(NumberToString(count + 1), 6, "0")
    IN  <<"O", "R", "D", "-">> \o year \o month \o day \o <<"-">> \o sequence

\* the catch branch of orderSchema.pre("save"): `ORD-${timestamp}`
timestampOrderNumber(t) == <<"O", "R", "D", "-">> \o DateNowString(t)

noUniqueIndex(orderNumber) == TRUE

\* orderNumber: { unique: true }: the index admits a document whose orderNumber
\* no stored document has
uniqueOrderNumber(orderNumber) ==
    \A o \in orders : o.orderNumber # orderNumber

validStatusesWithoutCancelled ==
    {"pending", "confirmed", "processing", "dispatched", "delivered"}

\* status: { enum: [...] }, also the validStatuses of the status update
validStatuses ==
    {"pending", "confirmed", "processing", "dispatched", "delivered", "cancelled"}

----------------------------------------------------------------------------
(* routes/orderRoutes.js: POST /create, one action per await *)

\* what JavaScript's Number() answers for a string that is not a numeral
NaN == -2

\* the value of a digit character
DigitValue(c) == (CHOOSE i \in 1..Len(DigitChars) : DigitChars[i] = c) - 1

\* Number(s) for a string of characters: the empty string is 0, a decimal
\* numeral is its value, anything else is NaN
RECURSIVE Number(_)
Number(s) ==
    IF s = <<>> THEN 0
    ELSE IF \E i \in 1..Len(s) : ~IsDigit(s[i]) THEN NaN
    ELSE 10 * Number(SubSeq(s, 1, Len(s) - 1)) + DigitValue(s[Len(s)])

\* a line item as submitted. productId: 0 is a value that is no valid ObjectId,
\* a positive number is the product's id; quantity and price come as the
\* characters the client sent
DefaultItem ==
    [productId |-> 1, name |-> "mug", quantity |-> <<"2">>,
     price |-> <<"5", "0", "0">>, category |-> "gifts"]

\* the slot of a request that carries no item yet
NoItem ==
    [productId |-> 0, name |-> "", quantity |-> <<>>, price |-> <<>>, category |-> ""]

\* one element of cleanedItems (lines 43-51) as the schema stores it: the
\* handler copies productId (null unless a valid ObjectId), name,
\* Number(quantity), Number(price) and imageUrl; category is not copied, so
\* the schema's default "" is stored
cleanedItems(item) ==
    [productId |-> IF item.productId # 0 THEN item.productId ELSE NULL,
     name      |-> item.name,
     quantity  |-> Number(item.quantity),
     price     |-> Number(item.price),
     imageUrl  |-> "",
     category  |-> ""]

\* the schema's validation of an item: name is a required String, quantity
\* and price are required Numbers, which NaN is not
itemValid(cleaned) ==
    cleaned.name # "" /\ cleaned.quantity # NaN /\ cleaned.price # NaN

\* the line items submitted: with and without a category, with a productId
\* that is no ObjectId, with another quantity, with a quantity that is no
\* numeral, without a name
ItemInputs ==
    { DefaultItem,
      [DefaultItem EXCEPT !.category = ""],
      [DefaultItem EXCEPT !.productId = 0],
      [DefaultItem EXCEPT !.quantity = <<"1", "0">>],
      [DefaultItem EXCEPT !.quantity = <<"x">>],
      [DefaultItem EXCEPT !.name = ""] }

\* a body POST /create accepts: customerInfo with name, phone and address,
\* a non-empty items array, paymentInfo with a method, a totalAmount; email:
\* customerInfo.email or the token's email is there; item: the line item of
\* the items array
CompleteBody ==
    [customerInfo |-> "complete", items |-> "some", paymentInfo |-> "complete",
     totalAmount |-> "set", email |-> TRUE, item |-> DefaultItem]

\* the bodies submitted: the complete one with and without an email, and one
\* for each way the handler's checks refuse a body
OrderBodies ==
    { CompleteBody,
      [CompleteBody EXCEPT !.email = FALSE],
      [CompleteBody EXCEPT !.customerInfo = "missing"],
      [CompleteBody EXCEPT !.items = "missing"],
      [CompleteBody EXCEPT !.paymentInfo = "missing"],
      [CompleteBody EXCEPT !.totalAmount = "missing"],
      [CompleteBody EXCEPT !.items = "empty"],
      [CompleteBody EXCEPT !.customerInfo = "incomplete"],
      [CompleteBody EXCEPT !.paymentInfo = "noMethod"] }

orderBodyRejectionWithoutMethodCheck(body) ==
    IF \/ body.customerInfo = "missing" \/ body.items = "missing"
       \/ body.paymentInfo = "missing" \/ body.totalAmount = "missing"
    THEN "Missing required fields"
    ELSE IF body.items = "empty" THEN "Order items are required"
    ELSE IF body.customerInfo = "incomplete" THEN "Customer info is incomplete"
    ELSE ""

\* the checks of POST /create in their order: the message of the 400 answered,
\* or "" when the body passes
orderBodyRejection(body) ==
    IF \/ body.customerInfo = "missing" \/ body.items = "missing"
       \/ body.paymentInfo = "missing" \/ body.totalAmount = "missing"
    THEN "Missing required fields"
    ELSE IF body.items = "empty" THEN "Order items are required"
    ELSE IF body.customerInfo = "incomplete" THEN "Customer info is incomplete"
    ELSE IF body.paymentInfo = "noMethod" THEN "Payment method is required"
    ELSE ""

\* what an awaited email call can come to: the service resolves with
\* { success: true }, resolves with { success: false }, or the try block around
\* the call throws
EmailOutcomes == {"sent", "failed", "threw"}

emailAttemptsStopAtFailure(r, hasEmail, adminOutcome, customerOutcome) ==
    { [order |-> r, to |-> "admin", outcome |-> adminOutcome] } \cup
    ( IF hasEmail /\ adminOutcome = "sent"
      THEN { [order |-> r, to |-> "customer", outcome |-> customerOutcome] }
      ELSE {} )

\* the emails POST /create attempts once order r is saved: the admin
\* notification, then, in a try block of its own, the customer confirmation
\* when order.customerInfo.email is there
emailAttempts(r, hasEmail, adminOutcome, customerOutcome) ==
    { [order |-> r, to |-> "admin", outcome |-> adminOutcome] } \cup
    ( IF hasEmail
      THEN { [order |-> r, to |-> "customer", outcome |-> customerOutcome] }
      ELSE {} )

\* status: the HTTP status answered (0 while none is); counted: the number came
\* from the try branch; count: what countDocuments() answered; email: the
\* order carries a customer email
IdleOrderRequest ==
    [pc |-> "idle", status |-> 0, counted |-> FALSE, count |-> 0, orderNumber |-> <<>>,
     email |-> FALSE, item |-> NoItem]

\* the request arrives with body. The handler's checks (lines 16-40) answer
\* 400 for a body they refuse. docValid: the document passes the schema's
\* validation, which save() runs before the pre-save hook.
CreateOrder(r, body, docValid) ==
    /\ orderReq[r].pc = "idle"
    /\ orderReq' = [orderReq EXCEPT ![r] =
          IF orderBodyRejection(body) # "" THEN [@ EXCEPT !.pc = "done", !.status = 400]
          ELSE IF ~docValid \/ ~itemValid(cleanedItems(body.item))
               THEN [@ EXCEPT !.pc = "done", !.status = 500]
          ELSE [@ EXCEPT !.pc = "count", !.email = body.email, !.item = body.item]]
    /\ response' = IF orderBodyRejection(body) # ""
                   THEN [kind |-> "create-order", status |-> 400, req |-> r,
                         message |-> orderBodyRejection(body)]
                   ELSE IF ~docValid \/ ~itemValid(cleanedItems(body.item))
                        THEN [kind |-> "create-order", status |-> 500]
                   ELSE response
    /\ UNCHANGED <<orders, emails, catalogVars, now, reviewVars, accountVars>>

\* pre-save hook, try branch: countDocuments() answers and the number is built
CountDocuments(r) ==
    /\ orderReq[r].pc = "count"
    /\ orderReq' = [orderReq EXCEPT ![r] =
          [@ EXCEPT !.pc = "insert",
                    !.counted = TRUE,
                    !.count = Cardinality(orders),
                    !.orderNumber = countOrderNumber(Cardinality(orders), now)]]
    /\ UNCHANGED <<orders, emails, catalogVars, now, response, reviewVars, accountVars>>

\* pre-save hook, catch branch: countDocuments() throws
CountDocumentsFails(r) ==
    /\ orderReq[r].pc = "count"
    /\ orderReq' = [orderReq EXCEPT ![r] =
          [@ EXCEPT !.pc = "insert",
                    !.orderNumber = timestampOrderNumber(now)]]
    /\ UNCHANGED <<orders, emails, catalogVars, now, response, reviewVars, accountVars>>

\* save() inserts the document; a duplicate orderNumber is E11000, which the
\* handler's catch answers with 500 "Order number conflict. Please try again."
InsertOrder(r) ==
    /\ orderReq[r].pc = "insert"
    /\ IF uniqueOrderNumber(orderReq[r].orderNumber)
       THEN /\ orders' = orders \cup
                   { [id          |-> r,
                      orderNumber |-> orderReq[r].orderNumber,
                      status      |-> "pending",
                      notes       |-> "",
                      items       |-> cleanedItems(orderReq[r].item)] }
            /\ orderReq' = [orderReq EXCEPT ![r].pc = "saved"]
            /\ UNCHANGED response
       ELSE /\ orderReq' = [orderReq EXCEPT ![r].pc = "done", ![r].status = 500]
            /\ response' = [kind |-> "create-order", status |-> 500]
            /\ UNCHANGED orders
    /\ UNCHANGED <<emails, catalogVars, now, reviewVars, accountVars>>

\* the two emails are sent, each inside its own try/catch, and the handler
\* answers 201 whatever their outcome
RespondOrderCreated(r, adminOutcome, customerOutcome) ==
    /\ orderReq[r].pc = "saved"
    /\ emails' = emails \cup
                    emailAttempts(r, orderReq[r].email, adminOutcome, customerOutcome)
    /\ orderReq' = [orderReq EXCEPT ![r].pc = "done", ![r].status = 201]
    /\ response' = [kind |-> "create-order", status |-> 201, req |-> r,
                    orderNumber |-> orderReq[r].orderNumber]
    /\ UNCHANGED <<orders, catalogVars, now, reviewVars, accountVars>>

----------------------------------------------------------------------------
(* routes/orderRoutes.js: PUT /admin/update-status/:id *)

\* req.body.status: absent (""), a word outside the enum, one of the enum
StatusInputs == {"", "refunded", "confirmed"}

\* req.body.notes: absent (""), or a note
NotesInputs == {"", "n"}

\* the ids a status update may name: 0 is a well-formed id of no order
TargetOrderIds == 0..MaxRequests

orderUpdateDataRenumbering(o, status, notes) ==
    [o EXCEPT !.status = status,
              !.notes = IF notes # "" THEN notes ELSE @,
              !.orderNumber = <<>>]

\* updateData = { status } and, `if (notes)`, notes, applied by findByIdAndUpdate
orderUpdateData(o, status, notes) ==
    [o EXCEPT !.status = status,
              !.notes = IF notes # "" THEN notes ELSE @]

UpdateOrderStatus(id, status, notes) ==
    /\ IF status = ""
       THEN /\ response' = [kind |-> "update-status", status |-> 400,
                            message |-> "Status is required"]
            /\ UNCHANGED orders
       ELSE IF status \notin validStatuses
       THEN /\ response' = [kind |-> "update-status", status |-> 400,
                            message |-> "Invalid status"]
            /\ UNCHANGED orders
       ELSE IF ~\E o \in orders : o.id = id
       THEN /\ response' = [kind |-> "update-status", status |-> 404,
                            message |-> "Order not found"]
            /\ UNCHANGED orders
       ELSE /\ orders' = { IF o.id = id THEN orderUpdateData(o, status, notes) ELSE o :
                             o \in orders }
            /\ response' = [kind |-> "update-status", status |-> 200, order |-> id]
    /\ UNCHANGED <<orderReq, emails, catalogVars, now, reviewVars, accountVars>>

----------------------------------------------------------------------------
(* models/Review.js and the rating aggregate of routes/productRoutes.js *)

\* the identities verifyToken decodes from the tokens in use: { id, role }
Identities == { [id |-> "u1", role |-> "user"], [id |-> "u2", role |-> "admin"] }

\* a rating is a Number: it is held as the number of its halves, so that 4.5
\* is 9 and the schema's bounds 1 and 5 are 2 and 10
RatingUnit == 2

\* ratings submitted: absent (NULL), 0, the two ends of the valid range, and 6
RatingInputs == {NULL, 0, 1 * RatingUnit, 5 * RatingUnit, 6 * RatingUnit}

\* ratings submitted with halves: 0.5, 1, 4.5, 5, 5.5
FractionalRatingInputs == {1, 1 * RatingUnit, 9, 5 * RatingUnit, 11}

\* (title, comment) pairs submitted
TextInputs == { <<"", "">>, <<"t", "c">> }

\* the ids a request may name: 0 is a well-formed id of no document
TargetProductIds == 0..MaxProducts

TargetReviewIds == 0..MaxReviewRequests

productExists(pid) == pid \in ProductIds /\ products[pid].exists

\* rating: { min: 1, max: 5, required: true }
validRating(rating) ==
    rating # NULL /\ rating >= 1 * RatingUnit /\ rating <= 5 * RatingUnit

noPairIndex(pid, uid) == TRUE

\* reviewSchema.index({ product: 1, user: 1 }, { unique: true })
uniqueProductUser(pid, uid) ==
    \A v \in reviews : ~(v.product = pid /\ v.user = uid)

RECURSIVE gcd(_, _)
gcd(a, b) == IF b = 0 THEN a ELSE gcd(b, a % b)

\* the number sum / n, as a fraction in lowest terms
Fraction(sum, n) ==
    [num |-> sum \div gcd(sum, n), den |-> n \div gcd(sum, n)]

RECURSIVE sumRatings(_)
sumRatings(S) ==
    IF S = {} THEN 0
    ELSE LET v == CHOOSE x \in S : TRUE
         IN  v.rating + sumRatings(S \ {v})

reviewsOf(pid) == {v \in reviews : v.product = pid}

NoStats == [found |-> FALSE, averageRating |-> Fraction(0, 1), ratingCount |-> 0]

\* Review.aggregate([{ $match: { product } }, { $group: { $avg, $sum: 1 } }])[0]
aggregateRatings(pid) ==
    IF reviewsOf(pid) = {} THEN NoStats
    ELSE [found         |-> TRUE,
          averageRating |-> Fraction(sumRatings(reviewsOf(pid)),
                                     Cardinality(reviewsOf(pid)) * RatingUnit),
          ratingCount   |-> Cardinality(reviewsOf(pid))]

keepStoredRating(p, stats) ==
    IF stats.found
    THEN [p EXCEPT !.averageRating = stats.averageRating,
                   !.ratingCount = stats.ratingCount]
    ELSE p

\* the update of recalculateProductRating:
\* { averageRating: stats?.averageRating || 0, ratingCount: stats?.ratingCount || 0 }
ratingUpdate(p, stats) ==
    [p EXCEPT !.averageRating = IF stats.found /\ stats.averageRating.num # 0
                                THEN stats.averageRating ELSE Fraction(0, 1),
              !.ratingCount = IF stats.found THEN stats.ratingCount ELSE 0]

----------------------------------------------------------------------------
(* routes/productRoutes.js: the review handlers, one action per await *)

IdleReviewRequest ==
    [pc |-> "idle", kind |-> "none", status |-> 0, product |-> 0, who |-> "",
     rating |-> NULL, title |-> "", comment |-> "", reviewId |-> 0,
     countBefore |-> 0, stats |-> NoStats]

\* a request that has answered: its locals are gone; an error keeps the status only
Answered(req, status) ==
    IF status \in {200, 201}
    THEN [req EXCEPT !.pc = "done", !.status = status, !.stats = NoStats]
    ELSE [IdleReviewRequest EXCEPT !.pc = "done", !.kind = req.kind, !.status = status]

InFlight(r) == reviewReq[r].pc \notin {"idle", "done"}

\* a request begins: it overlaps when another one is in flight
Overlaps(r) == overlapped \/ \E q \in ReviewRequests : q # r /\ InFlight(q)

\* POST /:id/reviews arrives with identity who: the rating check, then
\* Product.findById(req.params.id)
PostReview(r, pid, who, rating, title, comment) ==
    /\ reviewReq[r].pc = "idle"
    /\ \A q \in ReviewRequests : q < r => reviewReq[q].pc # "idle"
    /\ overlapped' = Overlaps(r)
    /\ LET req == [reviewReq[r] EXCEPT !.kind = "post", !.product = pid,
                      !.who = who.id, !.rating = rating, !.title = title,
                      !.comment = comment]
       IN  IF rating = NULL \/ rating = 0
           THEN /\ reviewReq' = [reviewReq EXCEPT ![r] =
                                    Answered(req, 400)]
                /\ response' = [kind |-> "post-review", status |-> 400, req |-> r]
           ELSE IF ~productExists(pid)
           THEN /\ reviewReq' = [reviewReq EXCEPT ![r] =
                                    Answered(req, 404)]
                /\ response' = [kind |-> "post-review", status |-> 404, req |-> r]
           ELSE /\ reviewReq' = [reviewReq EXCEPT ![r] =
                                    [req EXCEPT !.pc = "findOne",
                                                !.countBefore = products[pid].ratingCount]]
                /\ UNCHANGED response
    /\ UNCHANGED <<reviews, nextReviewId, catalogVars, now, orderVars, accountVars>>

\* Review.findOne({ product, user }) answers: the stored review or null (0)
FindOneReview(r) ==
    /\ reviewReq[r].pc = "findOne"
    /\ reviewReq' = [reviewReq EXCEPT ![r].pc = "save", ![r].reviewId =
          IF \E v \in reviews : v.product = reviewReq[r].product /\ v.user = reviewReq[r].who
          THEN (CHOOSE v \in reviews :
                   v.product = reviewReq[r].product /\ v.user = reviewReq[r].who).id
          ELSE 0]
    /\ UNCHANGED <<reviews, nextReviewId, overlapped, catalogVars, now, orderVars, response,
                   accountVars>>

\* review.save() of the found review, or Review.create(payload). Both validate
\* first; save() of a review deleted meanwhile is DocumentNotFoundError, a
\* create the pair index refuses is E11000; each error is answered with 500.
SaveReview(r) ==
    /\ reviewReq[r].pc = "save"
    /\ LET req == reviewReq[r]
           fail == /\ reviewReq' = [reviewReq EXCEPT ![r] = Answered(req, 500)]
                   /\ response' = [kind |-> "post-review", status |-> 500, req |-> r]
                   /\ UNCHANGED <<reviews, nextReviewId>>
           ok(after, nextId) ==
                   /\ reviews' = after
                   /\ nextReviewId' = nextId
                   /\ reviewReq' = [reviewReq EXCEPT ![r].pc = "aggregate"]
                   /\ UNCHANGED response
       IN  IF ~validRating(req.rating) THEN fail
           ELSE IF req.reviewId # 0
           THEN IF \E v \in reviews : v.id = req.reviewId
                THEN ok({ IF v.id = req.reviewId
                          THEN [v EXCEPT !.rating = req.rating, !.title = req.title,
                                         !.comment = req.comment]
                          ELSE v : v \in reviews }, nextReviewId)
                ELSE fail
           ELSE IF uniqueProductUser(req.product, req.who)
                THEN ok(reviews \cup { [id |-> nextReviewId, product |-> req.product,
                                        user |-> req.who, rating |-> req.rating,
                                        title |-> req.title, comment |-> req.comment] },
                        nextReviewId + 1)
                ELSE fail
    /\ UNCHANGED <<overlapped, catalogVars, now, orderVars, accountVars>>

anyoneMayDeleteReview(review, who) == TRUE

\* the negation of the handler's refusal (line 447): the requester is the
\* review's author or has role admin
mayDeleteReview(review, who) == review.user = who.id \/ who.role = "admin"

\* DELETE /:id/reviews/:reviewId arrives with identity who:
\* Review.findOne({ _id, product }), then the owner-or-admin check
DeleteReview(r, pid, reviewId, who) ==
    /\ reviewReq[r].pc = "idle"
    /\ \A q \in ReviewRequests : q < r => reviewReq[q].pc # "idle"
    /\ overlapped' = Overlaps(r)
    /\ LET req == [reviewReq[r] EXCEPT !.kind = "delete", !.product = pid,
                      !.who = who.id, !.reviewId = reviewId]
           found == \E v \in reviews : v.id = reviewId /\ v.product = pid
           review == CHOOSE v \in reviews : v.id = reviewId /\ v.product = pid
       IN  IF ~found
           THEN /\ reviewReq' = [reviewReq EXCEPT ![r] =
                                    Answered(req, 404)]
                /\ response' = [kind |-> "delete-review", status |-> 404, req |-> r]
           ELSE IF ~mayDeleteReview(review, who)
           THEN /\ reviewReq' = [reviewReq EXCEPT ![r] =
                                    Answered(req, 403)]
                /\ response' = [kind |-> "delete-review", status |-> 403, req |-> r]
           ELSE /\ reviewReq' = [reviewReq EXCEPT ![r] = [req EXCEPT !.pc = "deleteOne"]]
                /\ UNCHANGED response
    /\ UNCHANGED <<reviews, nextReviewId, catalogVars, now, orderVars, accountVars>>

\* review.deleteOne(): removes the document with that _id, if still stored
DeleteOneReview(r) ==
    /\ reviewReq[r].pc = "deleteOne"
    /\ reviews' = {v \in reviews : v.id # reviewReq[r].reviewId}
    /\ reviewReq' = [reviewReq EXCEPT ![r].pc = "aggregate"]
    /\ UNCHANGED <<nextReviewId, overlapped, catalogVars, now, orderVars, response,
                   accountVars>>

\* recalculateProductRating, first await: Review.aggregate answers
AggregateReviews(r) ==
    /\ reviewReq[r].pc = "aggregate"
    /\ reviewReq' = [reviewReq EXCEPT ![r].pc = "update",
                                      ![r].stats = aggregateRatings(reviewReq[r].product)]
    /\ UNCHANGED <<reviews, nextReviewId, overlapped, catalogVars, now, orderVars, response,
                   accountVars>>

\* recalculateProductRating, second await: Product.findByIdAndUpdate; then the
\* handler answers (a post after review.populate, which reads the user only)
UpdateProductRating(r) ==
    /\ reviewReq[r].pc = "update"
    /\ LET pid == reviewReq[r].product
       IN  products' = IF productExists(pid)
                       THEN [products EXCEPT ![pid] = ratingUpdate(@, reviewReq[r].stats)]
                       ELSE products
    /\ reviewReq' = [reviewReq EXCEPT ![r] =
          Answered(@, IF reviewReq[r].kind = "post" THEN 201 ELSE 200)]
    /\ response' = IF reviewReq[r].kind = "post"
                   THEN [kind |-> "post-review", status |-> 201, req |-> r]
                   ELSE [kind |-> "delete-review", status |-> 200, req |-> r]
    /\ UNCHANGED <<reviews, nextReviewId, overlapped, nextProductId, tempFiles, now,
                   orderVars, accountVars>>

\* the storage call request r is awaiting (findOne, save/create, deleteOne,
\* aggregate or findByIdAndUpdate) rejects: the handler's catch answers 500,
\* and what the request wrote before stays written
ReviewStorageFails(r) ==
    /\ InFlight(r)
    /\ reviewReq' = [reviewReq EXCEPT ![r] = Answered(@, 500)]
    /\ response' = [kind   |-> IF reviewReq[r].kind = "post" THEN "post-review"
                                                             ELSE "delete-review",
                    status |-> 500,
                    req    |-> r,
                    failed |-> reviewReq[r].pc]
    /\ UNCHANGED <<reviews, nextReviewId, overlapped, catalogVars, now, orderVars,
                   accountVars>>

----------------------------------------------------------------------------
(* routes/productRoutes.js: the queries that answer lists of products *)

\* the ids of the stored products; the lists below hold at most 8 products,
\* which is every stored one
StoredIds == {id \in ProductIds : products[id].exists}

\* products.map((p) => decorateProduct(p)), the clock read at tInfo and tPrice
decorateAll(ids, tInfo, tPrice) ==
    [id \in ids |-> decorateProduct(products[id], tInfo, tPrice)]

\* $group: { _id: "$items.productId", totalSold: { $sum: "$items.quantity" } }
RECURSIVE sumQuantities(_)
sumQuantities(S) ==
    IF S = {} THEN 0
    ELSE LET o == CHOOSE x \in S : TRUE
         IN  o.items.quantity + sumQuantities(S \ {o})

totalSold(id) == sumQuantities({o \in orders : o.items.productId = id})

\* the ids the best-seller aggregation answers ($match productId # null) that
\* Product.find({ _id: { $in } }) finds
bestSellerIds == {id \in StoredIds : \E o \in orders : o.items.productId = id}

bestSellerStoredPercentage(p, tInfo, tPrice, sold) ==
    LET d == decorateProductStoredPercentage(p, tInfo, tPrice)
    IN  [f \in DOMAIN d \cup {"totalSold"} |-> IF f = "totalSold" THEN sold ELSE d[f]]

\* { ...decorateProduct(product), totalSold: stats?.totalSold || 0 }
bestSeller(p, tInfo, tPrice, sold) ==
    LET d == decorateProduct(p, tInfo, tPrice)
    IN  [f \in DOMAIN d \cup {"totalSold"} |-> IF f = "totalSold" THEN sold ELSE d[f]]

\* GET /dashboard: every product, decorated
GetDashboard ==
    \E tPrice \in {now, now + 1} :
        /\ tPrice <= MaxTime
        /\ response' = [kind   |-> "dashboard",
                        status |-> 200,
                        tInfo  |-> now,
                        tPrice |-> tPrice,
                        products |-> decorateAll(StoredIds, now, tPrice)]
        /\ now' = tPrice
        /\ UNCHANGED <<catalogVars, orderVars, reviewVars, accountVars>>

\* GET /: the first page of the products, no search and no category, decorated
GetProducts ==
    \E tPrice \in {now, now + 1} :
        /\ tPrice <= MaxTime
        /\ response' = [kind   |-> "list",
                        status |-> 200,
                        tInfo  |-> now,
                        tPrice |-> tPrice,
                        products |-> decorateAll(StoredIds, now, tPrice)]
        /\ now' = tPrice
        /\ UNCHANGED <<catalogVars, orderVars, reviewVars, accountVars>>

\* GET /highlights. featuredIds and bundleIds: the products the isFeatured
\* and the bundle/promo filters select
GetHighlights(featuredIds, bundleIds) ==
    \E tPrice \in {now, now + 1} :
        /\ tPrice <= MaxTime
        /\ featuredIds \subseteq StoredIds
        /\ bundleIds \subseteq StoredIds
        /\ response' = [kind   |-> "highlights",
                        status |-> 200,
                        tInfo  |-> now,
                        tPrice |-> tPrice,
                        featured    |-> decorateAll(featuredIds, now, tPrice),
                        bundles     |-> decorateAll(bundleIds, now, tPrice),
                        newArrivals |-> decorateAll(StoredIds, now, tPrice),
                        bestSellers |-> [id \in bestSellerIds |->
                            bestSeller(products[id], now, tPrice, totalSold(id))]]
        /\ now' = tPrice
        /\ UNCHANGED <<catalogVars, orderVars, reviewVars, accountVars>>

----------------------------------------------------------------------------
(* routes/userRoutes.js and models/User.js: forgot-password and
   reset-password, one action per await that touches the store *)

\* Date.now() + 3600000 in instants: one hour is two units
OneHour == 2

\* bcrypt.hash(password, 10)
hash(password) == <<"bcrypt", password>>

\* the account as registered: a hashed password and the schema's defaults
\* resetPasswordToken: null, resetPasswordExpires: null
RegisteredUser ==
    [password |-> hash("old"), resetPasswordToken |-> NULL,
     resetPasswordExpires |-> NULL]

\* req.body.token of reset-password: a string, which is a token
\* forgot-password issues or one it never issues (0), or the query object
\* { $ne: null }, which body-parser hands over as it came
TokenInputs ==
    { [op |-> "eq", value |-> t] : t \in 0..MaxAccountRequests }
        \cup { [op |-> "ne", value |-> NULL] }

\* the condition resetPasswordToken: token of the findOne filter on a stored
\* value: equality for a string, the operator for a query object
tokenFilter(stored, token) ==
    IF token.op = "eq" THEN stored = token.value ELSE stored # token.value

\* User.findOne({ resetPasswordToken: token,
\*                resetPasswordExpires: { $gt: Date.now() } }) finds the account
findByResetToken(token) ==
    /\ tokenFilter(user.resetPasswordToken, token)
    /\ user.resetPasswordExpires # NULL
    /\ user.resetPasswordExpires > now

IdleAccountRequest ==
    [pc |-> "idle", kind |-> "none", status |-> 0, token |-> [op |-> "eq", value |-> 0],
     expires |-> NULL, password |-> ""]

\* the requests arrive in the order of their numbers
NextAccountRequest(r) == \A q \in AccountRequests : q < r => accountReq[q].pc # "idle"

\* POST /forgot-password arrives: User.findOne({ email }); for an unknown
\* email the handler answers 200 at once, otherwise it draws the token and
\* the expiry
ForgotPassword(r, known) ==
    /\ accountReq[r].pc = "idle"
    /\ NextAccountRequest(r)
    /\ IF ~known
       THEN /\ accountReq' = [accountReq EXCEPT ![r] =
                   [@ EXCEPT !.pc = "done", !.kind = "forgot", !.status = 200]]
            /\ response' = [kind |-> "forgot-password", status |-> 200, req |-> r]
            /\ UNCHANGED nextToken
       ELSE /\ accountReq' = [accountReq EXCEPT ![r] =
                   [@ EXCEPT !.pc = "save", !.kind = "forgot",
                             !.token = [op |-> "eq", value |-> nextToken],
                             !.expires = now + OneHour]]
            /\ nextToken' = nextToken + 1
            /\ UNCHANGED response
    /\ UNCHANGED <<user, now, catalogVars, orderVars, reviewVars>>

\* forgot-password: user.save() writes the token and the expiry, then the
\* email is sent; the handler answers 200, or 500 when the email failed
SaveResetToken(r, emailOutcome) ==
    /\ accountReq[r].pc = "save"
    /\ accountReq[r].kind = "forgot"
    /\ user' = [user EXCEPT !.resetPasswordToken = accountReq[r].token.value,
                            !.resetPasswordExpires = accountReq[r].expires]
    /\ accountReq' = [accountReq EXCEPT ![r].pc = "done",
                         ![r].status = IF emailOutcome = "sent" THEN 200 ELSE 500]
    /\ response' = [kind |-> "forgot-password",
                    status |-> IF emailOutcome = "sent" THEN 200 ELSE 500, req |-> r]
    /\ UNCHANGED <<nextToken, now, catalogVars, orderVars, reviewVars>>

\* POST /reset-password arrives with a token that, if a string, is one issued
\* so far or 0: the findOne by token and expiry; 400 when it finds no account
ResetPassword(r, token, password) ==
    /\ accountReq[r].pc = "idle"
    /\ NextAccountRequest(r)
    /\ token.op = "eq" => token.value < nextToken
    /\ IF ~findByResetToken(token)
       THEN /\ accountReq' = [accountReq EXCEPT ![r] =
                   [@ EXCEPT !.pc = "done", !.kind = "reset", !.status = 400,
                             !.token = token]]
            /\ response' = [kind |-> "reset-password", status |-> 400, req |-> r]
       ELSE /\ accountReq' = [accountReq EXCEPT ![r] =
                   [@ EXCEPT !.pc = "save", !.kind = "reset", !.token = token,
                             !.password = password]]
            /\ UNCHANGED response
    /\ UNCHANGED <<user, nextToken, now, catalogVars, orderVars, reviewVars>>

\* reset-password: after bcrypt.hash, user.save() writes the new password
\* and clears the token and the expiry; the handler answers 200
SaveNewPassword(r) ==
    /\ accountReq[r].pc = "save"
    /\ accountReq[r].kind = "reset"
    /\ user' = [user EXCEPT !.password = hash(accountReq[r].password),
                            !.resetPasswordToken = NULL,
                            !.resetPasswordExpires = NULL]
    /\ accountReq' = [accountReq EXCEPT ![r].pc = "done", ![r].status = 200]
    /\ response' = [kind |-> "reset-password", status |-> 200, req |-> r]
    /\ UNCHANGED <<nextToken, now, catalogVars, orderVars, reviewVars>>

----------------------------------------------------------------------------
(* middleware/auth.js and the routes it guards *)

\* what a request presents: no Authorization header; a header whose token
\* jwt.verify refuses; a verified token of a user; a verified token of an admin
Authorizations ==
    { [present |-> FALSE, valid |-> FALSE, role |-> "none"],
      [present |-> TRUE,  valid |-> FALSE, role |-> "none"],
      [present |-> TRUE,  valid |-> TRUE,  role |-> "user"],
      [present |-> TRUE,  valid |-> TRUE,  role |-> "admin"] }

\* the status verifyToken answers with, 0 when it calls next()
verifyToken(auth) ==
    IF ~auth.present THEN 401
    ELSE IF ~auth.valid THEN 403
    ELSE 0

isAdminLettingUsersPass(auth) == 0

\* the status isAdmin answers with, 0 when it calls next(); it runs after
\* verifyToken set req.user, so its "No user" branch is not taken
isAdmin(auth) == IF auth.role # "admin" THEN 403 ELSE 0

\* verifyToken, isAdmin in front of a handler
adminGate(auth) == IF verifyToken(auth) # 0 THEN verifyToken(auth) ELSE isAdmin(auth)

\* a middleware answered: the handler, and multer before it, never ran
Refused(kind, auth) ==
    /\ response' = [kind |-> kind, status |-> adminGate(auth), refused |-> TRUE]
    /\ UNCHANGED <<catalogVars, now, orderVars, reviewVars, accountVars>>

\* POST /add-product behind verifyToken, isAdmin
GatedAddProduct(auth, price, pct, start, end, files, uploader) ==
    IF adminGate(auth) # 0
    THEN Refused("add-product", auth)
    ELSE AddProduct(price, pct, start, end, files, uploader)

\* PUT /update-product/:id behind verifyToken, isAdmin
GatedUpdateProduct(auth, id, price, pct, start, end, files, uploader) ==
    IF adminGate(auth) # 0
    THEN Refused("update-product", auth)
    ELSE UpdateProduct(id, price, pct, start, end, files, uploader)

\* DELETE /delete-product/:id behind verifyToken, isAdmin
GatedDeleteProduct(auth, id) ==
    IF adminGate(auth) # 0
    THEN Refused("delete-product", auth)
    ELSE DeleteProduct(id)

\* PUT /admin/update-status/:id behind verifyToken, isAdmin
GatedUpdateOrderStatus(auth, id, status, notes) ==
    IF adminGate(auth) # 0
    THEN Refused("update-status", auth)
    ELSE UpdateOrderStatus(id, status, notes)

----------------------------------------------------------------------------
(* The catalogue specification: products are added and updated without files *)

Init ==
    /\ products = [id \in ProductIds |-> NoProduct]
    /\ nextProductId = 1
    /\ tempFiles = {}
    /\ now = 0
    /\ response = NoResponse
    /\ orders = {}
    /\ orderReq = [r \in OrderRequests |-> IdleOrderRequest]
    /\ emails = {}
    /\ reviews = {}
    /\ nextReviewId = 1
    /\ reviewReq = [r \in ReviewRequests |-> IdleReviewRequest]
    /\ overlapped = FALSE
    /\ user = RegisteredUser
    /\ nextToken = 1
    /\ accountReq = [r \in AccountRequests |-> IdleAccountRequest]

Next ==
    \/ Tick
    \/ \E price \in PriceInputs, d \in DiscountInputs :
            AddProduct(price, d[1], d[2], d[3], {}, WorkingUploader)
    \/ \E id \in ProductIds, price \in PriceInputs, d \in DiscountInputs :
            UpdateProduct(id, price, d[1], d[2], d[3], {}, WorkingUploader)
    \/ \E id \in ProductIds : DeleteProduct(id)
    \/ \E id \in ProductIds : GetProduct(id)

Spec == Init /\ [][Next]_vars

----------------------------------------------------------------------------
(* The media specification: products without a discount, added and updated
   with files, and the screenshot upload of the checkout *)

MediaNext ==
    \/ \E price \in PriceInputs, files \in FileInputs, uploader \in Uploaders :
            AddProduct(price, 0, NULL, NULL, files, uploader)
    \/ \E id \in ProductIds, price \in PriceInputs, files \in FileInputs,
          uploader \in Uploaders :
            UpdateProduct(id, price, 0, NULL, NULL, files, uploader)
    \/ \E id \in ProductIds : DeleteProduct(id)
    \/ \E hasFile \in BOOLEAN, uploader \in Uploaders :
            UploadScreenshot(hasFile, uploader)

MediaSpec == Init /\ [][MediaNext]_vars

----------------------------------------------------------------------------
(* The order specification *)

OrderNext ==
    \/ Tick
    \/ \E r \in OrderRequests, body \in OrderBodies, docValid \in BOOLEAN :
            CreateOrder(r, body, docValid)
    \/ \E r \in OrderRequests : CountDocuments(r)
    \/ \E r \in OrderRequests : CountDocumentsFails(r)
    \/ \E r \in OrderRequests : InsertOrder(r)
    \/ \E r \in OrderRequests : RespondOrderCreated(r, "sent", "sent")

OrderSpec == Init /\ [][OrderNext]_vars

----------------------------------------------------------------------------
(* The order administration specification: order intake and the admin's
   status updates. The clock stands still, every customer has an email, and
   requests arrive in the order of their indices (an index is a label, so
   nothing is lost). *)

\* request r is the next one to arrive
NextToArrive(r) == \A q \in OrderRequests : q < r => orderReq[q].pc # "idle"

OrderAdminNext ==
    \/ \E r \in OrderRequests, body \in {b \in OrderBodies : b.email},
          docValid \in BOOLEAN :
            NextToArrive(r) /\ CreateOrder(r, body, docValid)
    \/ \E r \in OrderRequests : CountDocuments(r)
    \/ \E r \in OrderRequests : CountDocumentsFails(r)
    \/ \E r \in OrderRequests : InsertOrder(r)
    \/ \E r \in OrderRequests : RespondOrderCreated(r, "sent", "sent")
    \/ \E id \in TargetOrderIds, status \in StatusInputs, notes \in NotesInputs :
            UpdateOrderStatus(id, status, notes)

OrderAdminSpec == Init /\ [][OrderAdminNext]_vars

----------------------------------------------------------------------------
(* The order status specification: complete orders are taken in, one at a
   time, while the admin submits every status of the enum, a word outside it,
   or none; the clock stands still and counting does not fail *)

\* no creation is between its arrival and its answer
NoCreationInFlight == \A q \in OrderRequests : orderReq[q].pc \in {"idle", "done"}

\* req.body.status: absent (""), a word outside the enum, each of the enum
AllStatusInputs == {"", "refunded"} \cup validStatuses

OrderStatusNext ==
    \/ \E r \in OrderRequests :
            /\ NextToArrive(r)
            /\ NoCreationInFlight
            /\ CreateOrder(r, CompleteBody, TRUE)
    \/ \E r \in OrderRequests : CountDocuments(r)
    \/ \E r \in OrderRequests : InsertOrder(r)
    \/ \E r \in OrderRequests : RespondOrderCreated(r, "sent", "sent")
    \/ \E id \in TargetOrderIds, status \in AllStatusInputs :
            UpdateOrderStatus(id, status, "")

OrderStatusSpec == Init /\ [][OrderStatusNext]_vars

----------------------------------------------------------------------------
(* The order email specification: order intake with every outcome of the two
   emails; the clock stands still and requests arrive in index order *)

OrderEmailNext ==
    \/ \E r \in OrderRequests, body \in OrderBodies, docValid \in BOOLEAN :
            NextToArrive(r) /\ CreateOrder(r, body, docValid)
    \/ \E r \in OrderRequests : CountDocuments(r)
    \/ \E r \in OrderRequests : CountDocumentsFails(r)
    \/ \E r \in OrderRequests : InsertOrder(r)
    \/ \E r \in OrderRequests, adminOutcome \in EmailOutcomes,
          customerOutcome \in EmailOutcomes :
            RespondOrderCreated(r, adminOutcome, customerOutcome)

OrderEmailSpec == Init /\ [][OrderEmailNext]_vars

----------------------------------------------------------------------------
(* The review specification: product 1 is in the catalogue, without reviews *)

ReviewInit ==
    /\ products = [id \in ProductIds |->
                      IF id = 1 THEN preSave(ProductDoc(1000, 0, NULL, NULL))
                      ELSE NoProduct]
    /\ nextProductId = 2
    /\ tempFiles = {}
    /\ now = 0
    /\ response = NoResponse
    /\ orders = {}
    /\ orderReq = [r \in OrderRequests |-> IdleOrderRequest]
    /\ emails = {}
    /\ reviews = {}
    /\ nextReviewId = 1
    /\ reviewReq = [r \in ReviewRequests |-> IdleReviewRequest]
    /\ overlapped = FALSE
    /\ user = RegisteredUser
    /\ nextToken = 1
    /\ accountReq = [r \in AccountRequests |-> IdleAccountRequest]

ReviewNext ==
    \/ \E r \in ReviewRequests, pid \in TargetProductIds, who \in Identities,
          rating \in RatingInputs, text \in TextInputs :
            PostReview(r, pid, who, rating, text[1], text[2])
    \/ \E r \in ReviewRequests : FindOneReview(r)
    \/ \E r \in ReviewRequests : SaveReview(r)
    \/ \E r \in ReviewRequests, pid \in TargetProductIds,
          reviewId \in TargetReviewIds, who \in Identities :
            DeleteReview(r, pid, reviewId, who)
    \/ \E r \in ReviewRequests : DeleteOneReview(r)
    \/ \E r \in ReviewRequests : AggregateReviews(r)
    \/ \E r \in ReviewRequests : UpdateProductRating(r)

ReviewSpec == ReviewInit /\ [][ReviewNext]_vars

----------------------------------------------------------------------------
(* The snapshot specification: on a catalogue that holds product 1, orders
   with each of the line items are created one after the other, a user
   reviews the product, and the product is updated and deleted *)

SnapshotNext ==
    \/ \E r \in OrderRequests, item \in ItemInputs :
            /\ NextToArrive(r)
            /\ NoCreationInFlight
            /\ CreateOrder(r, [CompleteBody EXCEPT !.item = item], TRUE)
    \/ \E r \in OrderRequests : CountDocuments(r)
    \/ \E r \in OrderRequests : InsertOrder(r)
    \/ \E r \in OrderRequests : RespondOrderCreated(r, "sent", "sent")
    \/ \E r \in ReviewRequests :
            /\ \A q \in ReviewRequests : ~InFlight(q)
            /\ PostReview(r, 1, [id |-> "u1", role |-> "user"], 5 * RatingUnit, "t", "c")
    \/ \E r \in ReviewRequests : FindOneReview(r)
    \/ \E r \in ReviewRequests : SaveReview(r)
    \/ \E r \in ReviewRequests : AggregateReviews(r)
    \/ \E r \in ReviewRequests : UpdateProductRating(r)
    \/ \E id \in ProductIds, price \in {0, 1000} :
            UpdateProduct(id, price, 0, NULL, NULL, {}, WorkingUploader)
    \/ \E id \in ProductIds : DeleteProduct(id)

SnapshotSpec == ReviewInit /\ [][SnapshotNext]_vars

----------------------------------------------------------------------------
(* The gate specification: the four admin routes are requested with every
   kind of authorization, next to orders created one after the other *)

GateNext ==
    \/ \E r \in OrderRequests :
            /\ NextToArrive(r)
            /\ NoCreationInFlight
            /\ CreateOrder(r, CompleteBody, TRUE)
    \/ \E r \in OrderRequests : CountDocuments(r)
    \/ \E r \in OrderRequests : InsertOrder(r)
    \/ \E r \in OrderRequests : RespondOrderCreated(r, "sent", "sent")
    \/ \E auth \in Authorizations, price \in {NULL, 1000}, files \in {{}, {"image"}} :
            GatedAddProduct(auth, price, 0, NULL, NULL, files, WorkingUploader)
    \/ \E auth \in Authorizations, id \in ProductIds, price \in {0, 1000} :
            GatedUpdateProduct(auth, id, price, 0, NULL, NULL, {}, WorkingUploader)
    \/ \E auth \in Authorizations, id \in ProductIds : GatedDeleteProduct(auth, id)
    \/ \E auth \in Authorizations, id \in TargetOrderIds, status \in {"", "confirmed"} :
            GatedUpdateOrderStatus(auth, id, status, "")

GateSpec == Init /\ [][GateNext]_vars

----------------------------------------------------------------------------
(* The stock specification: products are saved with every stock and
   threshold, and added, updated, fetched and deleted through the routes *)

StockNext ==
    \/ \E id \in ProductIds, stock \in StockInputs, threshold \in ThresholdInputs :
            SaveProduct(id, stock, threshold)
    \/ AddProduct(1000, 0, NULL, NULL, {}, WorkingUploader)
    \/ \E id \in ProductIds, price \in {0, 1000} :
            UpdateProduct(id, price, 0, NULL, NULL, {}, WorkingUploader)
    \/ \E id \in ProductIds : DeleteProduct(id)
    \/ \E id \in ProductIds : GetProduct(id)

StockSpec == Init /\ [][StockNext]_vars

----------------------------------------------------------------------------
(* The rating specification: reviews of product 1 are posted, by the same and
   by different users, with ratings that include halves *)

RatingNext ==
    \/ \E r \in ReviewRequests, who \in Identities, rating \in FractionalRatingInputs :
            PostReview(r, 1, who, rating, "t", "c")
    \/ \E r \in ReviewRequests : FindOneReview(r)
    \/ \E r \in ReviewRequests : SaveReview(r)
    \/ \E r \in ReviewRequests : AggregateReviews(r)
    \/ \E r \in ReviewRequests : UpdateProductRating(r)

RatingSpec == ReviewInit /\ [][RatingNext]_vars

----------------------------------------------------------------------------
(* The query specification: products with and without a discount are added
   and ordered, the clock advances, and every product query is asked; some
   products are featured and the others carry a bundle *)

QueryNext ==
    \/ Tick
    \/ \E d \in { <<0, NULL, NULL>>, <<20, 1, 3>> } :
            AddProduct(1000, d[1], d[2], d[3], {}, WorkingUploader)
    \/ \E r \in OrderRequests :
            /\ NextToArrive(r)
            /\ NoCreationInFlight
            /\ CreateOrder(r, CompleteBody, TRUE)
    \/ \E r \in OrderRequests : CountDocuments(r)
    \/ \E r \in OrderRequests : InsertOrder(r)
    \/ \E r \in OrderRequests : RespondOrderCreated(r, "sent", "sent")
    \/ \E id \in ProductIds : GetProduct(id)
    \/ GetDashboard
    \/ GetProducts
    \/ \E featuredIds \in SUBSET ProductIds :
            GetHighlights(featuredIds, StoredIds \ featuredIds)

QuerySpec == Init /\ [][QueryNext]_vars

----------------------------------------------------------------------------
(* The account specification: forgot-password and reset-password requests
   for the one account, interleaved, while the clock advances *)

AccountNext ==
    \/ Tick
    \/ \E r \in AccountRequests, known \in BOOLEAN : ForgotPassword(r, known)
    \/ \E r \in AccountRequests, emailOutcome \in {"sent", "failed"} :
            SaveResetToken(r, emailOutcome)
    \/ \E r \in AccountRequests, token \in TokenInputs :
            ResetPassword(r, token, "new")
    \/ \E r \in AccountRequests : SaveNewPassword(r)

AccountSpec == Init /\ [][AccountNext]_vars

----------------------------------------------------------------------------
(* The rejection specification: order intake as in the order administration
   specification, next to the requests validation refuses: status updates
   whose status is missing or outside the enum and review posts that carry no
   usable rating, on a catalogue that holds product 1 *)

RejectNext ==
    \/ \E r \in OrderRequests, body \in {b \in OrderBodies : b.email},
          docValid \in BOOLEAN :
            NextToArrive(r) /\ CreateOrder(r, body, docValid)
    \/ \E r \in OrderRequests : CountDocuments(r)
    \/ \E r \in OrderRequests : CountDocumentsFails(r)
    \/ \E r \in OrderRequests : InsertOrder(r)
    \/ \E r \in OrderRequests : RespondOrderCreated(r, "sent", "sent")
    \/ \E id \in TargetOrderIds, status \in StatusInputs \ validStatuses,
          notes \in NotesInputs :
            UpdateOrderStatus(id, status, notes)
    \/ \E r \in ReviewRequests, pid \in TargetProductIds, who \in Identities,
          rating \in {NULL, 0}, text \in TextInputs :
            PostReview(r, pid, who, rating, text[1], text[2])

RejectSpec == ReviewInit /\ [][RejectNext]_vars

----------------------------------------------------------------------------
(* The review specification with a store whose calls can fail *)

ReviewFaultNext ==
    \/ ReviewNext
    \/ \E r \in ReviewRequests : ReviewStorageFails(r)

ReviewFaultSpec == ReviewInit /\ [][ReviewFaultNext]_vars

----------------------------------------------------------------------------
(* Pricing claims, stated on the response of GET /:id *)

Decorated == response.kind = "product" /\ response.status = 200

\* the discount window of stored document p holds at instant t
WindowHolds(p, t) ==
    /\ p.discountPercentage > 0
    /\ p.discountStart # NULL
    /\ p.discountEnd # NULL
    /\ p.discountStart <= t
    /\ t <= p.discountEnd

\* C1: a decorated product reports isDiscountActive = true iff its stored
\* discountPercentage > 0, discountStart and discountEnd are both set and
\* discountStart <= now <= discountEnd, both ends inclusive, now being the
\* instant getDiscountInfo read; so it is false when a bound is null or the
\* percentage is 0.
C1_IsDiscountActiveIffInWindow ==
    Decorated =>
        /\ response.body.isDiscountActive <=> WindowHolds(response.doc, response.tInfo)
        /\ (response.doc.discountStart = NULL \/ response.doc.discountEnd = NULL
              \/ response.doc.discountPercentage = 0)
                 => ~response.body.isDiscountActive

\* C1 witness: a one-instant window (start = end) queried at that instant is active
C1_Witness ==
    /\ Decorated
    /\ response.doc.discountStart = response.doc.discountEnd
    /\ response.doc.discountStart = response.tInfo
    /\ response.body.isDiscountActive

\* C2: when both clock reads of one decoration return the same instant now,
\* finalPrice = price * (1 - discountPercentage/100) if the discount is active
\* at now and finalPrice = price otherwise; price 1000 with 20% over [1, 3]
\* gives 800 at instant 2 and 1000 at instant 5.
C2_FinalPriceIsDiscountedIffActive ==
    (Decorated /\ response.tInfo = response.tPrice) =>
        LET p == response.doc
            t == response.tInfo
            scenario == /\ p.price = 1000 /\ p.discountPercentage = 20
                        /\ p.discountStart = 1 /\ p.discountEnd = 3
        IN  /\ 100 * response.body.finalPrice =
                 IF WindowHolds(p, t) THEN p.price * (100 - p.discountPercentage)
                                      ELSE 100 * p.price
            /\ (scenario /\ t = 2) =>
                 response.body.finalPrice = 800 /\ response.body.isDiscountActive
            /\ (scenario /\ t = 5) =>
                 response.body.finalPrice = 1000 /\ ~response.body.isDiscountActive

\* C2 witness: the scenario product queried inside its window costs 800
C2_Witness ==
    /\ Decorated
    /\ response.tInfo = 2 /\ response.tPrice = 2
    /\ response.doc.price = 1000 /\ response.doc.discountPercentage = 20
    /\ response.doc.discountStart = 1 /\ response.doc.discountEnd = 3
    /\ response.body.finalPrice = 800

\* C3 (as claimed): every decorated product has finalPrice <= price; the claim
\* adds that equality holds iff the discount is inactive. The first half is
\* what update-product, which validates nothing, lets a stored product break.
C3_FinalPriceAtMostPrice ==
    Decorated => response.body.finalPrice <= response.body.price

\* C10 (as claimed): discountExpiry is the discount end when the discount is
\* active at the query instant and null whenever it is inactive.
C10_ExpiryOnlyWhenActive ==
    Decorated =>
        response.body.discountExpiry =
            IF response.body.isDiscountActive THEN response.doc.discountEnd ELSE NULL

\* C11: every step of GET /:id leaves the stored products as they were, and the
\* product it decorates is returned with discountPercentage equal to the stored
\* percentage when the discount is active at the instant read and 0 otherwise,
\* and with discountStart and discountEnd null when it is inactive. (A step of
\* GET /:id is one that answers with kind "product".)
C11_DisplayedPercentageZeroWhenInactive ==
    [][ (response'.kind = "product" /\ \E id \in ProductIds : GetProduct(id)) =>
          /\ products' = products
          /\ Decorated' =>
                /\ \E id \in ProductIds : response'.doc = products'[id]
                /\ response'.body.discountPercentage =
                      IF WindowHolds(response'.doc, response'.tInfo)
                      THEN response'.doc.discountPercentage ELSE 0
                /\ ~WindowHolds(response'.doc, response'.tInfo) =>
                      /\ response'.body.discountStart = NULL
                      /\ response'.body.discountEnd = NULL ]_vars

\* C11 witness: a product with 20% over a window that has not begun is returned
\* with percentage 0 and no bounds, while the stored document keeps all three
C11_Witness ==
    /\ Decorated
    /\ response.tInfo < response.doc.discountStart
    /\ response.doc.discountStart <= response.doc.discountEnd
    /\ response.doc.discountPercentage = 20
    /\ response.body.discountPercentage = 0
    /\ response.body.discountStart = NULL /\ response.body.discountEnd = NULL
    /\ \E id \in ProductIds :
          /\ products[id].exists
          /\ products[id].discountPercentage = 20
          /\ products[id].discountStart = response.doc.discountStart
          /\ products[id].discountEnd = response.doc.discountEnd

\* C12 (as claimed): the decorated finalPrice is never negative, for every
\* product stored through add-product and update-product and every instant.
\* Stated here for the products whose stored price is not negative, which
\* leaves the percentage as the one thing the write-time checks have to bound.
C12_FinalPriceNotNegative ==
    (Decorated /\ response.doc.price >= 0) => response.body.finalPrice >= 0

\* C13 (as claimed): every stored product has a non-negative price, a
\* discountPercentage between 0 and 100, and discountStart and discountEnd
\* either both null or both set.
C13_StoredProductsSatisfyDataModel ==
    \A id \in ProductIds :
        products[id].exists =>
            /\ products[id].price >= 0
            /\ products[id].discountPercentage >= 0
            /\ products[id].discountPercentage <= 100
            /\ (products[id].discountStart = NULL) <=> (products[id].discountEnd = NULL)

\* C20 (as claimed): an operation addressed to an entity that does not exist
\* is answered with 404 and mutates nothing. Stated here for the product
\* update and the product delete, whose answer records whether the product
\* they named was stored.
C20_MissingProductAnswers404 ==
    (response.kind \in {"update-product", "delete-product"} /\ ~response.found)
        => response.status = 404

----------------------------------------------------------------------------
(* Upload claims, under MediaSpec *)

\* C17 (as claimed): a failure of the media uploader during add-product or
\* update-product does not end the request in an error response.
C17_UploaderFailureIsSwallowed ==
    (response.kind \in {"add-product", "update-product"} /\ response.uploadThrew)
        => response.status = 200

\* C18 (as claimed): whichever way a request that stored temp files ends
\* (upload success, uploader error, missing configuration, validation
\* rejection), each of its temp files has been unlinked.
C18_TempFilesUnlinkedOnEveryPath ==
    \A f \in tempFiles : f.unlinked

----------------------------------------------------------------------------
(* Order number claims, under OrderSpec *)

\* ORD-<8 digits>-<6 digits>
MatchesOrderNumberFormat(s) ==
    /\ Len(s) = 19
    /\ SubSeq(s, 1, 4) = <<"O", "R", "D", "-">>
    /\ \A i \in 5..12 : IsDigit(s[i])
    /\ s[13] = "-"
    /\ \A i \in 14..19 : IsDigit(s[i])

\* C4: in every reachable state, whatever the interleaving of concurrent order
\* creations, no two stored orders have the same orderNumber.
C4_OrderNumbersUnique ==
    \A o1 \in orders : \A o2 \in orders :
        o1.orderNumber = o2.orderNumber => o1 = o2

\* C4 witness: two creations raced to the same number; one is stored and the
\* other was refused by the index
C4_Witness ==
    \E r \in OrderRequests : \E o \in orders :
        /\ orderReq[r].pc = "done" /\ orderReq[r].status = 500
        /\ orderReq[r].counted
        /\ o.id # r
        /\ o.orderNumber = orderReq[r].orderNumber

\* C5 (as claimed): when two creations read the same order count and so derive
\* the same order number, once both have answered both succeeded (201) and two
\* orders with two distinct order numbers are stored.
C5_RacingCreationsBothSucceed ==
    \A r1 \in OrderRequests : \A r2 \in OrderRequests :
        ( /\ r1 # r2
          /\ orderReq[r1].pc = "done" /\ orderReq[r2].pc = "done"
          /\ orderReq[r1].counted /\ orderReq[r2].counted
          /\ orderReq[r1].count = orderReq[r2].count
          /\ orderReq[r1].orderNumber = orderReq[r2].orderNumber )
        => /\ orderReq[r1].status = 201
           /\ orderReq[r2].status = 201
           /\ \E o1 \in orders : \E o2 \in orders :
                 /\ o1.id = r1 /\ o2.id = r2
                 /\ o1.orderNumber # o2.orderNumber

\* C6 (as claimed): every stored order's orderNumber matches
\* ORD-<8 digits>-<6 digits> on every path of the generator, the path taken
\* when counting fails included.
C6_StoredOrderNumbersMatchFormat ==
    \A o \in orders : MatchesOrderNumberFormat(o.orderNumber)

----------------------------------------------------------------------------
(* Order claims, under OrderAdminSpec and OrderEmailSpec *)

\* C14: a stored order carries the orderNumber the pre-save hook gave it when it
\* was first saved, and no step (a status/notes update by the admin, the
\* creation of another order) removes the order or changes that orderNumber.
C14_OrderNumberNeverChanges ==
    [][ \A o \in orders :
          /\ o.orderNumber = orderReq[o.id].orderNumber
          /\ \E o2 \in orders' : o2.id = o.id /\ o2.orderNumber = o.orderNumber ]_vars

\* C14 witness: of two stored orders one was given a status and a note by the
\* admin, and still has the number its creation assigned
C14_Witness ==
    /\ Cardinality(orders) = 2
    /\ response.kind = "update-status" /\ response.status = 200
    /\ \E o \in orders :
          /\ o.id = response.order
          /\ o.status = "confirmed" /\ o.notes = "n"
          /\ o.orderNumber = orderReq[o.id].orderNumber
          /\ MatchesOrderNumberFormat(o.orderNumber)

\* the six statuses of an order
OrderStatuses ==
    {"pending", "confirmed", "processing", "dispatched", "delivered", "cancelled"}

\* C21: after every step each stored order's status is one of the six; an
\* order that a step stores starts as pending; and a status update naming a
\* stored order and any of the six statuses, whatever the order's current
\* status, is answered 200 and leaves the order with that status.
C21_StatusAlwaysValidAndPermissive ==
    [][ /\ \A o \in orders' : o.status \in OrderStatuses
        /\ \A o \in orders' :
              (\A old \in orders : old.id # o.id) => o.status = "pending"
        /\ \A old \in orders, t \in OrderStatuses :
              (response'.kind = "update-status" /\ UpdateOrderStatus(old.id, t, ""))
                  => /\ response'.status = 200
                     /\ \E o \in orders' : o.id = old.id /\ o.status = t ]_vars

\* C21 witness: of two orders one is delivered, and the other was just set
\* back to pending by a status update
C21_Witness ==
    /\ response.kind = "update-status" /\ response.status = 200
    /\ \E o1 \in orders, o2 \in orders :
          /\ o1.id = response.order /\ o1.status = "pending"
          /\ o2.id # o1.id /\ o2.status = "delivered"

\* C22: every stored order's line item carries the name, quantity, price and
\* category that its create request submitted
C22_StoredItemsEqualSubmitted ==
    \A o \in orders :
        LET submitted == orderReq[o.id].item
        IN  /\ o.items.name = submitted.name
            /\ o.items.quantity = Number(submitted.quantity)
            /\ o.items.price = Number(submitted.price)
            /\ o.items.category = submitted.category

\* a step of update-product or delete-product: it answers as one of the two
\* and no order or review request moves
ProductMutationStep ==
    /\ response'.kind \in {"update-product", "delete-product"}
    /\ orderReq' = orderReq
    /\ reviewReq' = reviewReq
    /\ \/ response' # response
       \/ products' # products

\* C23: updating or deleting a product leaves every stored order and every
\* stored review as it was, so the reviews and order items of a deleted
\* product stay, with their reference to it
C23_ProductMutationsLeaveOrdersAndReviews ==
    [][ ProductMutationStep => orders' = orders /\ reviews' = reviews ]_vars

\* product 1 has just been deleted while a review of it and an order item
\* referring to it are stored
C23_Witness ==
    /\ response.kind = "delete-product"
    /\ response.found
    /\ ~products[1].exists
    /\ \E v \in reviews : v.product = 1
    /\ \E o \in orders : o.items.productId = 1

\* an email for order r to that recipient was handed to the email service
EmailAttempted(r, to) == \E e \in emails : e.order = r /\ e.to = to

\* C16: whatever the outcome of the two emails (sent, a failure result, an
\* exception), a request whose order was saved does not end otherwise than with
\* 201 and the order's number, the order stays stored, the admin notification
\* was attempted and, when the order has a customer email, the customer
\* confirmation was attempted too, whether or not the first email failed.
C16_EmailFailuresNeverAbortCreation ==
    /\ \A o \in orders :
          \/ orderReq[o.id].pc = "saved"
          \/ /\ orderReq[o.id].pc = "done"
             /\ orderReq[o.id].status = 201
             /\ EmailAttempted(o.id, "admin")
             /\ orderReq[o.id].email => EmailAttempted(o.id, "customer")
    /\ \A r \in OrderRequests :
          orderReq[r].status = 201 => \E o \in orders : o.id = r
    /\ (response.kind = "create-order" /\ response.status = 201) =>
          \E o \in orders :
              o.id = response.req /\ o.orderNumber = response.orderNumber

\* C16 witness: the admin notification threw and the customer confirmation
\* came back as a failure; the request answered 201 and the order is stored
C16_Witness ==
    \E r \in OrderRequests :
        /\ orderReq[r].pc = "done" /\ orderReq[r].status = 201
        /\ [order |-> r, to |-> "admin", outcome |-> "threw"] \in emails
        /\ [order |-> r, to |-> "customer", outcome |-> "failed"] \in emails
        /\ \E o \in orders : o.id = r /\ o.status = "pending"

----------------------------------------------------------------------------
(* Error-handling claims *)

\* a body of POST /create that lacks customerInfo, items, paymentInfo or
\* totalAmount, or has empty items, incomplete customer info or no payment method
BodyLacksRequired(body) ==
    \/ body.customerInfo \in {"missing", "incomplete"}
    \/ body.items \in {"missing", "empty"}
    \/ body.paymentInfo \in {"missing", "noMethod"}
    \/ body.totalAmount = "missing"

\* the step answers 400, stores and modifies nothing and sends no email
RejectedWithoutEffect ==
    /\ response'.status = 400
    /\ UNCHANGED <<products, nextProductId, tempFiles, orders, emails, reviews,
                   nextReviewId>>
    /\ \A r \in OrderRequests :
          orderReq'[r] = orderReq[r] \/ orderReq'[r].status = 400
    /\ \A r \in ReviewRequests :
          reviewReq'[r] = reviewReq[r] \/ reviewReq'[r].status = 400

\* request r of that kind arrives in this step
OrderRequestArrives(r) == orderReq[r].pc = "idle" /\ orderReq'[r].pc # "idle"

ReviewRequestArrives(r) == reviewReq[r].pc = "idle" /\ reviewReq'[r].pc # "idle"

\* C19: an order creation whose body lacks a required part, a status update
\* whose status is missing or outside the enum, and a review post without a
\* rating each answer 400, store and modify nothing, and send no email.
C19_ValidationRejectionHasNoEffect ==
    [][ /\ \A r \in OrderRequests :
              OrderRequestArrives(r) =>
                  \A body \in OrderBodies, docValid \in BOOLEAN :
                      (BodyLacksRequired(body) /\ CreateOrder(r, body, docValid))
                          => RejectedWithoutEffect
        /\ \A id \in TargetOrderIds, status \in StatusInputs, notes \in NotesInputs :
              (status \notin validStatuses /\ UpdateOrderStatus(id, status, notes))
                  => RejectedWithoutEffect
        /\ \A r \in ReviewRequests :
              ReviewRequestArrives(r) =>
                  \A pid \in TargetProductIds, who \in Identities, text \in TextInputs :
                      PostReview(r, pid, who, NULL, text[1], text[2])
                          => RejectedWithoutEffect ]_vars

\* C19 witness: with an order stored and its emails sent, a creation without a
\* payment method was answered 400; the request stored no order
C19_Witness ==
    /\ response.kind = "create-order" /\ response.status = 400
    /\ response.message = "Payment method is required"
    /\ orderReq[response.req].pc = "done" /\ orderReq[response.req].status = 400
    /\ \A o \in orders : o.id # response.req
    /\ \A e \in emails : e.order # response.req
    /\ orders # {} /\ emails # {}
    /\ \E r \in ReviewRequests : reviewReq[r].status = 400

----------------------------------------------------------------------------
(* Review claims, under ReviewSpec *)

\* every review request that began has answered
Quiescent == \A r \in ReviewRequests : ~InFlight(r)

\* document or decorated product d carries the mean and the count of the
\* reviews stored for product pid, and 0 and 0 when there is none
AggregatesMatch(d, pid) ==
    LET n == Cardinality(reviewsOf(pid))
    IN  /\ d.ratingCount = n
        /\ IF n = 0 THEN d.averageRating.num = 0
           ELSE d.averageRating.num * n * RatingUnit =
                    sumRatings(reviewsOf(pid)) * d.averageRating.den

\* C7: after review posts and deletes handled one at a time, once each has
\* answered, every product's stored averageRating is the mean of the ratings
\* of its stored reviews and ratingCount their number (0 and 0 when none is
\* left), and a product query issued then returns those aggregates.
C7_SequentialAggregatesMatch ==
    (Quiescent /\ ~overlapped) =>
        \A pid \in ProductIds :
            products[pid].exists =>
                /\ AggregatesMatch(products[pid], pid)
                /\ AggregatesMatch(decorateProduct(products[pid], now, now), pid)

\* C7 witness: two users rated the product 1 and 5, one after the other; the
\* product carries the mean 3 and the count 2
C7_Witness ==
    /\ Quiescent /\ ~overlapped
    /\ {v.rating : v \in reviewsOf(1)} = {1 * RatingUnit, 5 * RatingUnit}
    /\ products[1].ratingCount = 2
    /\ products[1].averageRating = [num |-> 3, den |-> 1]

\* C8 (as claimed): for every interleaving of concurrent review requests on one
\* product, once all have answered the product's averageRating and ratingCount
\* are the mean and the count of the reviews then stored.
C8_ConcurrentAggregatesMatch ==
    Quiescent =>
        \A pid \in ProductIds :
            products[pid].exists => AggregatesMatch(products[pid], pid)

\* C15 (as claimed): when a review post or delete, handled alone, ends in a
\* storage error, no partial state is left: the product's averageRating and
\* ratingCount still are the mean and the count of the reviews stored, so the
\* review write is not persisted without the aggregates reflecting it.
C15_NoPartialStateAfterStorageError ==
    ( /\ Quiescent /\ ~overlapped
      /\ response.kind \in {"post-review", "delete-review"}
      /\ response.status = 500 )
    => \A pid \in ProductIds :
          products[pid].exists => AggregatesMatch(products[pid], pid)

\* C9: at most one review is stored per (product, user) pair in every reachable
\* state; and when a user who has a review on a product posts another one
\* (alone), the stored review is that same document with the rating, title and
\* comment posted, and ratingCount has not increased.
C9_OneReviewPerProductAndUser ==
    /\ \A v1 \in reviews : \A v2 \in reviews :
          (v1.product = v2.product /\ v1.user = v2.user) => v1 = v2
    /\ ( /\ Quiescent /\ ~overlapped
         /\ response.kind = "post-review" /\ response.status = 201
         /\ reviewReq[response.req].reviewId # 0 )
       => LET req == reviewReq[response.req]
          IN  /\ {v \in reviews : v.product = req.product /\ v.user = req.who}
                   = { [id |-> req.reviewId, product |-> req.product, user |-> req.who,
                        rating |-> req.rating, title |-> req.title,
                        comment |-> req.comment] }
              /\ products[req.product].ratingCount <= req.countBefore

\* C9 witness: a user rated the product 1, then posted again with 5; one review
\* is stored, with rating 5, and ratingCount is still 1
C9_Witness ==
    /\ Quiescent /\ ~overlapped
    /\ response.kind = "post-review" /\ response.status = 201
    /\ reviewReq[response.req].reviewId # 0
    /\ reviewReq[response.req].rating = 5 * RatingUnit
    /\ \E q \in ReviewRequests :
          /\ q # response.req
          /\ reviewReq[q].status = 201 /\ reviewReq[q].kind = "post"
          /\ reviewReq[q].who = reviewReq[response.req].who
          /\ reviewReq[q].rating = 1 * RatingUnit
    /\ Cardinality(reviews) = 1
    /\ products[1].ratingCount = 1

\* the identity with that id is the review's author or an admin
OwnerOrAdmin(uid, review) ==
    review.user = uid \/ \E i \in Identities : i.id = uid /\ i.role = "admin"

\* C24: a delete request for a stored review by somebody who is neither its
\* author nor an admin is answered 403 at once and changes neither the reviews
\* nor the product's aggregates; a review leaves the store only through the
\* deleteOne of a delete request of its author or an admin, and that deleteOne
\* removes it
C24_ReviewDeletedOnlyByOwnerOrAdmin ==
    [][ /\ \A r \in ReviewRequests :
              (ReviewRequestArrives(r) /\ reviewReq'[r].kind = "delete")
                  => \A pid \in TargetProductIds, id \in TargetReviewIds,
                        who \in Identities :
                        \A v \in reviews :
                            ( /\ DeleteReview(r, pid, id, who)
                              /\ v.id = id /\ v.product = pid
                              /\ ~OwnerOrAdmin(who.id, v) )
                                => /\ reviewReq'[r].pc = "done"
                                   /\ reviewReq'[r].status = 403
                                   /\ response'.status = 403
                                   /\ reviews' = reviews
                                   /\ products' = products
        /\ \A v \in reviews :
              (\A w \in reviews' : w.id # v.id)
                  => \E r \in ReviewRequests :
                        /\ reviewReq[r].kind = "delete"
                        /\ reviewReq[r].pc = "deleteOne"
                        /\ reviewReq'[r].pc = "aggregate"
                        /\ reviewReq[r].reviewId = v.id
                        /\ OwnerOrAdmin(reviewReq[r].who, v)
        /\ \A r \in ReviewRequests :
              (reviewReq[r].pc = "deleteOne" /\ reviewReq'[r].pc = "aggregate")
                  => \A w \in reviews' : w.id # reviewReq[r].reviewId ]_vars

\* a user who is no admin has just been refused the deletion of somebody
\* else's review of product 1, which is still stored and counted
C24_Witness ==
    /\ response.kind = "delete-review"
    /\ response.status = 403
    /\ \E r \in ReviewRequests :
          reviewReq[r].kind = "delete" /\ reviewReq[r].status = 403
    /\ \E v \in reviews : v.product = 1 /\ v.user # "u1"
    /\ products[1].ratingCount = 1

\* the stores the admin routes write: products, uploaded temp files, orders
AdminStores == <<products, nextProductId, tempFiles, orders>>

\* the status the claim expects for an authorization that is not an admin's
ExpectedRefusal(auth) == IF ~auth.present THEN 401 ELSE 403

\* C25: a product add, update or delete or an order status update requested
\* without a verified admin token is answered 401 when no token came and 403
\* when the token is invalid or not an admin's, and changes no store
C25_AdminOperationsAreGated ==
    [][ response'.kind \in {"add-product", "update-product", "delete-product",
                            "update-status"}
        => \A auth \in {a \in Authorizations : a.role # "admin"} :
              ( \/ \E price \in {NULL, 1000}, files \in {{}, {"image"}} :
                      GatedAddProduct(auth, price, 0, NULL, NULL, files,
                                      WorkingUploader)
                \/ \E id \in ProductIds, price \in {0, 1000} :
                      GatedUpdateProduct(auth, id, price, 0, NULL, NULL, {},
                                         WorkingUploader)
                \/ \E id \in ProductIds : GatedDeleteProduct(auth, id)
                \/ \E id \in TargetOrderIds, status \in {"", "confirmed"} :
                      GatedUpdateOrderStatus(auth, id, status, "") )
              => /\ response'.status = ExpectedRefusal(auth)
                 /\ AdminStores' = AdminStores ]_vars

\* a request was refused with 403 while a product and an order are stored,
\* the order still pending
C25_Witness ==
    /\ response.kind = "update-status"
    /\ response.status = 403
    /\ "refused" \in DOMAIN response
    /\ \E id \in ProductIds : products[id].exists
    /\ \E o \in orders : o.status = "pending"

\* the stock status the data model names for a stock and a threshold
DerivedStockStatus(stock, threshold) ==
    IF stock <= 0 THEN "out_of_stock"
    ELSE IF stock <= threshold THEN "low_stock"
    ELSE "in_stock"

\* C26: every stored product's stockStatus is out_of_stock when stock <= 0,
\* low_stock when 0 < stock <= lowStockThreshold and in_stock otherwise; stock
\* 3 with threshold 5 is low_stock, stock 0 out_of_stock, stock 10 in_stock
C26_StockStatusDerivedFromStock ==
    /\ \A id \in ProductIds :
          products[id].exists
              => /\ products[id].stockStatus =
                        DerivedStockStatus(products[id].stock,
                                           products[id].lowStockThreshold)
                 /\ (products[id].stock = 3 /\ products[id].lowStockThreshold = 5)
                        => products[id].stockStatus = "low_stock"
                 /\ products[id].stock = 0
                        => products[id].stockStatus = "out_of_stock"
                 /\ (products[id].stock = 10 /\ products[id].lowStockThreshold = 5)
                        => products[id].stockStatus = "in_stock"
    /\ (response.kind = "product" /\ response.status = 200)
          => response.doc.stockStatus =
                DerivedStockStatus(response.doc.stock, response.doc.lowStockThreshold)

\* a product saved with stock 3 and threshold 5 has been updated through
\* update-product afterwards and is low_stock
C26_Witness ==
    /\ response.kind = "update-product"
    /\ response.status = 200
    /\ \E id \in ProductIds :
          /\ products[id].exists
          /\ products[id].stock = 3
          /\ products[id].lowStockThreshold = 5
          /\ products[id].stockStatus = "low_stock"
          /\ products[id].price = 0

\* C27: every stored review's rating is an integer between 1 and 5, every
\* stored product's averageRating lies between 0 and 5 and its ratingCount is
\* not negative
C27_RatingsAreIntegersInRange ==
    /\ \A v \in reviews :
          /\ v.rating % RatingUnit = 0
          /\ v.rating >= 1 * RatingUnit
          /\ v.rating <= 5 * RatingUnit
    /\ \A id \in ProductIds :
          products[id].exists
              => /\ products[id].averageRating.num >= 0
                 /\ products[id].averageRating.num <= 5 * products[id].averageRating.den
                 /\ products[id].ratingCount >= 0

\* the fields of a decorated product the query paths are compared on
PricingFields(d) ==
    <<d.finalPrice, d.isDiscountActive, d.discountExpiry, d.discountPercentage,
      d.averageRating, d.ratingCount>>

\* every entry of a list carries what decorateProduct makes of the stored
\* product at the instants the response read the clock
SameDecoration(list, tInfo, tPrice) ==
    \A id \in DOMAIN list :
        PricingFields(list[id]) =
            PricingFields(decorateProduct(products[id], tInfo, tPrice))

\* C28: the dashboard, the public list, the single fetch and each of the four
\* highlights lists answer, for a stored product and the instants of the
\* response, the same finalPrice, isDiscountActive, discountExpiry, displayed
\* discountPercentage, averageRating and ratingCount
C28_AllQueryPathsDecorateAlike ==
    [][ (response'.kind \in {"product", "dashboard", "list", "highlights"}
            /\ response'.status = 200 /\ products' = products)
        => LET a == response'
           IN  /\ a.kind = "product"
                    => \E id \in StoredIds :
                          /\ a.doc = products[id]
                          /\ PricingFields(a.body) =
                                PricingFields(decorateProduct(products[id],
                                                              a.tInfo, a.tPrice))
               /\ a.kind \in {"dashboard", "list"}
                    => /\ DOMAIN a.products = StoredIds
                       /\ SameDecoration(a.products, a.tInfo, a.tPrice)
               /\ a.kind = "highlights"
                    => /\ SameDecoration(a.featured, a.tInfo, a.tPrice)
                       /\ SameDecoration(a.bundles, a.tInfo, a.tPrice)
                       /\ SameDecoration(a.newArrivals, a.tInfo, a.tPrice)
                       /\ SameDecoration(a.bestSellers, a.tInfo, a.tPrice) ]_vars

\* the highlights were answered inside the window of an ordered product's
\* discount: it is among the featured, the new arrivals and the best sellers,
\* at the discounted price
C28_Witness ==
    /\ response.kind = "highlights"
    /\ 1 \in DOMAIN response.featured
    /\ 1 \in DOMAIN response.newArrivals
    /\ 1 \in DOMAIN response.bestSellers
    /\ response.bestSellers[1].isDiscountActive
    /\ response.bestSellers[1].finalPrice = 800
    /\ response.bestSellers[1].totalSold = 2

\* C29: a decorated product whose isDiscountActive is true carries the
\* discounted price price * (1 - discountPercentage / 100) as finalPrice, and
\* one whose isDiscountActive is false carries price, whenever the two clock
\* reads fall
C29_DerivedFieldsConsistent ==
    Decorated =>
        /\ response.body.isDiscountActive
              => response.body.finalPrice * 100 =
                    response.doc.price * (100 - response.doc.discountPercentage)
        /\ ~response.body.isDiscountActive
              => response.body.finalPrice = response.doc.price

\* C30: the password changes only in the save of a reset-password request
\* whose token is the string stored as the account's resetPasswordToken, with
\* the expiry still ahead; a successful reset leaves token and expiry
\* cleared; a forgot-password that saves leaves its own, new token stored
C30_ResetTokenSingleUseAndTimeLimited ==
    [][ /\ user'.password # user.password
            => \E r \in AccountRequests :
                  /\ accountReq[r].kind = "reset"
                  /\ accountReq[r].pc = "save"
                  /\ accountReq'[r].pc = "done"
                  /\ accountReq[r].token.op = "eq"
                  /\ accountReq[r].token.value = user.resetPasswordToken
                  /\ user.resetPasswordExpires # NULL
                  /\ user.resetPasswordExpires > now
        /\ \A r \in AccountRequests :
              (accountReq[r].kind = "reset" /\ accountReq[r].pc = "save"
                  /\ accountReq'[r].status = 200)
                  => /\ user'.resetPasswordToken = NULL
                     /\ user'.resetPasswordExpires = NULL
        /\ \A r \in AccountRequests :
              (accountReq[r].kind = "forgot" /\ accountReq[r].pc = "save"
                  /\ accountReq'[r].pc = "done")
                  => /\ user'.resetPasswordToken = accountReq[r].token.value
                     /\ user'.resetPasswordToken # user.resetPasswordToken ]_vars

====
